---- MODULE Spec2Model ----
(***************************************************************************)
(* The Rescue duplex sponge gadget (src/rescue/constraints.rs) and the     *)
(* canonicalization of absorbable values (src/constraints/absorbable.rs),  *)
(* over a small prime field.                                               *)
(***************************************************************************)
EXTENDS Integers, Sequences, FiniteSets, TLC

VARIABLES rate, capacity, state, mode, ncalls, last, prev, trace, canon, run

vars == <<rate, capacity, state, mode, ncalls, last, prev, trace, canon, run>>

(***************************************************************************)
(* Bounds of the model.                                                    *)
(***************************************************************************)
MaxRate == 2
MaxCapacity == 1
MaxCalls == 2
MaxBytes == 4
MaxFail == 1
MaxBatch == 2

(***************************************************************************)
(* The prime field F.  The modulus is the Fermat prime 2^16 + 1, so that   *)
(* MODULUS_BITS = 17, CAPACITY = 16 and a field element carries two        *)
(* usable bytes.                                                           *)
(***************************************************************************)
MODULUS == 65537

RECURSIVE BitLen(_)
BitLen(n) == IF n = 0 THEN 0 ELSE 1 + BitLen(n \div 2)

MODULUS_BITS == BitLen(MODULUS)

CAPACITY == MODULUS_BITS - 1

Fadd(a, b) == (a + b) % MODULUS

\* a * b mod MODULUS, split so that no intermediate product leaves 32 bits
Fmul(a, b) == (((a * (b \div 256)) % MODULUS) * 256 + a * (b % 256)) % MODULUS

\* square-and-multiply exponentiation x^e: x^e = (x^(e \div 2))^2 * x^(e % 2).
\* The intermediate powers are bound as values, so each is computed once.
RECURSIVE pow(_, _)
pow(x, e) ==
    IF e = 0 THEN 1
    ELSE CHOOSE p \in {Fmul(sq, IF e % 2 = 1 THEN x ELSE 1) :
                          sq \in {Fmul(h, h) : h \in {pow(x, e \div 2)}}} : TRUE

(***************************************************************************)
(* RescueSpongeParameters: an instance for every width w = rate+capacity.  *)
(***************************************************************************)
\* a vector of the given length, evaluated element by element once
Vector(f, w) == SubSeq(f, 1, w)

rounds == 1

alpha == 5

\* 5 * 52429 = 4 * 65536 + 1: the inverse of alpha modulo MODULUS - 1
invalpha == 52429

\* pow(x, e) for every field element x, each computed once by pow
PowTable(e) == Vector([i \in 1..MODULUS |-> pow(i - 1, e)], MODULUS)

AlphaPowers == PowTable(alpha)

InvAlphaPowers == PowTable(invalpha)

\* Field::pow and FpVar::pow_by_constant: the power x^e, read from the
\* table of the exponent where there is one
Fpow(x, e) ==
    IF x >= 0 /\ x < MODULUS /\ e = invalpha THEN InvAlphaPowers[x + 1]
    ELSE IF x >= 0 /\ x < MODULUS /\ e = alpha THEN AlphaPowers[x + 1]
    ELSE pow(x, e)

initial_constant(w) == Vector([i \in 1..w |-> i], w)

constants_matrix(w) == [i \in 1..w |-> [j \in 1..w |-> (i + 2 * j) % MODULUS]]

constants_constant(w) == Vector([i \in 1..w |-> 3 * i + 1], w)

\* the Vandermonde matrices on the nodes 1..w (invertible), one for each
\* width, each computed once
MdsMatrices ==
    Vector([w \in 1..(MaxRate + MaxCapacity) |->
              Vector([i \in 1..w |-> Vector([j \in 1..w |-> pow(i, j - 1)], w)], w)],
           MaxRate + MaxCapacity)

mds(w) == MdsMatrices[w]

(***************************************************************************)
(* Linear algebra helpers of permute: the inner loops over j.              *)
(***************************************************************************)
RECURSIVE DotFrom(_, _, _)
DotFrom(row, vec, j) ==
    IF j > Len(vec) THEN 0
    ELSE Fadd(Fmul(row[j], vec[j]), DotFrom(row, vec, j + 1))

\* out[i] = sum_j m[i][j] * v[j] + add[i]
MatVecAdd(m, v, add) ==
    Vector([i \in 1..Len(v) |-> Fadd(DotFrom(m[i], v, 1), add[i])], Len(v))

(***************************************************************************)
(* A sponge value threaded through the handlers: the fields of             *)
(* RescueSpongeVar (params.rate, params.capacity, state, mode) and what    *)
(* one call observes: log (the permutations, folds and reads it made, in   *)
(* order, positions 0-based as in the code), out (the elements written to  *)
(* the output slice), pows (pow_by_constant calls made so far), failAt     *)
(* (the pow_by_constant call at which the constraint system reports a      *)
(* SynthesisError; 0: none) and res (the Result of the call).              *)
(***************************************************************************)
Absorbing(i) == [kind |-> "Absorbing", idx |-> i]

Squeezing(i) == [kind |-> "Squeezing", idx |-> i]

PermuteEv == [ev |-> "permute", pos |-> 0, val |-> 0]

FoldEv(p, v) == [ev |-> "fold", pos |-> p, val |-> v]

ReadEv(p, v) == [ev |-> "read", pos |-> p, val |-> v]

Sponge(r, c, st, m, f) ==
    [rate |-> r, capacity |-> c, state |-> st, mode |-> m,
     log |-> <<>>, out |-> <<>>, pows |-> 0, failAt |-> f, res |-> "Ok"]

\* RescueSpongeVar::new
new(r, c, f) == Sponge(r, c, [i \in 1..(r + c) |-> 0], Absorbing(0), f)

\* PermuteRounds with a fault: key_state is updated with the key_injection
\* of the sub-round before
RECURSIVE PermuteRounds_stale_injection(_, _, _, _, _, _)
PermuteRounds_stale_injection(r, st, ks, ki, pows, failAt) ==
    LET w == Len(st)
        e == IF r % 2 = 0 THEN invalpha ELSE alpha
        fi == IF failAt <= pows + w /\ failAt > pows THEN failAt - pows ELSE 0
    IN  IF r >= 2 * rounds THEN [state |-> st, pows |-> pows, res |-> "Ok"]
        ELSE IF fi > 0
        THEN [state |-> Vector([i \in 1..w |-> IF i < fi THEN Fpow(st[i], e) ELSE st[i]], w),
              pows |-> failAt, res |-> "Err"]
        ELSE LET ks1 == Vector([i \in 1..w |-> Fpow(ks[i], e)], w)
                 st1 == Vector([i \in 1..w |-> Fpow(st[i], e)], w)
                 ki2 == MatVecAdd(constants_matrix(w), ki, constants_constant(w))
                 ks2 == MatVecAdd(mds(w), ks1, ki)
                 st2 == MatVecAdd(mds(w), st1, ks2)
             IN  PermuteRounds_stale_injection(r + 1, st2, ks2, ki2, pows + w, failAt)

(***************************************************************************)
(* permute: one sub-round r of the loop `for r in 0..2 * rounds`, and the  *)
(* rounds after it.  st, ks, ki are self.state, key_state, key_injection.  *)
(* The S-box loop stops at the first pow_by_constant that fails, leaving   *)
(* the elements before it raised and the others untouched.                 *)
(***************************************************************************)
RECURSIVE PermuteRounds(_, _, _, _, _, _)
PermuteRounds(r, st, ks, ki, pows, failAt) ==
    LET w == Len(st)
        e == IF r % 2 = 0 THEN invalpha ELSE alpha
        fi == IF failAt <= pows + w /\ failAt > pows THEN failAt - pows ELSE 0
    IN  IF r >= 2 * rounds THEN [state |-> st, pows |-> pows, res |-> "Ok"]
        ELSE IF fi > 0
        THEN [state |-> Vector([i \in 1..w |-> IF i < fi THEN Fpow(st[i], e) ELSE st[i]], w),
              pows |-> failAt, res |-> "Err"]
        ELSE LET ks1 == Vector([i \in 1..w |-> Fpow(ks[i], e)], w)
                 st1 == Vector([i \in 1..w |-> Fpow(st[i], e)], w)
                 ki2 == MatVecAdd(constants_matrix(w), ki, constants_constant(w))
                 ks2 == MatVecAdd(mds(w), ks1, ki2)
                 st2 == MatVecAdd(mds(w), st1, ks2)
             IN  PermuteRounds(r + 1, st2, ks2, ki2, pows + w, failAt)

\* permute with a fault: the initial `self.state[i] += key_state[i]` is missing
permute_no_key_add(sp) ==
    LET w == sp.rate + sp.capacity
    IN  CHOOSE after \in
            {[sp EXCEPT !.state = p.state, !.pows = p.pows, !.res = p.res,
                        !.log = Append(sp.log, PermuteEv)] :
               p \in {PermuteRounds(0, sp.state, initial_constant(w),
                                    initial_constant(w), sp.pows, sp.failAt)}} : TRUE

permute(sp) ==
    LET w == sp.rate + sp.capacity
        key_state == initial_constant(w)
        st0 == Vector([i \in 1..w |-> Fadd(sp.state[i], key_state[i])], w)
    IN  CHOOSE after \in
            {[sp EXCEPT !.state = p.state, !.pows = p.pows, !.res = p.res,
                        !.log = Append(sp.log, PermuteEv)] :
               p \in {PermuteRounds(0, st0, key_state, initial_constant(w),
                                    sp.pows, sp.failAt)}} : TRUE

(***************************************************************************)
(* absorb_internal and squeeze_internal                                    *)
(***************************************************************************)
\* FoldInto with a fault: `=` for `+=`, the element overwrites the position
FoldInto_overwrite(sp, start, elements, n) ==
    [sp EXCEPT
        !.state = Vector([i \in 1..Len(sp.state) |->
                             IF i > start /\ i <= start + n
                             THEN elements[i - start]
                             ELSE sp.state[i]], Len(sp.state)),
        !.log = sp.log \o [i \in 1..n |-> FoldEv(start + i - 1, elements[i])]]

\* self.state[i + rate_start_index] += element, for the first n elements
FoldInto(sp, start, elements, n) ==
    [sp EXCEPT
        !.state = Vector([i \in 1..Len(sp.state) |->
                             IF i > start /\ i <= start + n
                             THEN Fadd(sp.state[i], elements[i - start])
                             ELSE sp.state[i]], Len(sp.state)),
        !.log = sp.log \o [i \in 1..n |-> FoldEv(start + i - 1, elements[i])]]

\* absorb_internal with a fault: `<` for `<=` in "if we can finish in this call"
RECURSIVE absorb_internal_strict(_, _, _)
absorb_internal_strict(sp, rate_start_index, elements) ==
    IF rate_start_index + Len(elements) < sp.rate
    THEN [FoldInto(sp, rate_start_index, elements, Len(elements))
             EXCEPT !.mode = Absorbing(rate_start_index + Len(elements))]
    ELSE LET num_elements_absorbed == sp.rate - rate_start_index
             s1 == FoldInto(sp, rate_start_index, elements, num_elements_absorbed)
             s2 == permute(s1)
         IN  IF s2.res = "Err" THEN s2
             ELSE absorb_internal_strict(s2, 0,
                      SubSeq(elements, num_elements_absorbed + 1, Len(elements)))

\* absorb_internal with a fault: the `?` after self.permute() is missing, so
\* the call goes on folding after a failed permutation
RECURSIVE absorb_internal_unchecked(_, _, _)
absorb_internal_unchecked(sp, rate_start_index, elements) ==
    IF rate_start_index + Len(elements) <= sp.rate
    THEN [FoldInto(sp, rate_start_index, elements, Len(elements))
             EXCEPT !.mode = Absorbing(rate_start_index + Len(elements))]
    ELSE LET num_elements_absorbed == sp.rate - rate_start_index
             s1 == FoldInto(sp, rate_start_index, elements, num_elements_absorbed)
             s2 == permute(s1)
         IN  absorb_internal_unchecked(s2, 0,
                      SubSeq(elements, num_elements_absorbed + 1, Len(elements)))

RECURSIVE absorb_internal(_, _, _)
absorb_internal(sp, rate_start_index, elements) ==
    IF rate_start_index + Len(elements) <= sp.rate
    THEN [FoldInto(sp, rate_start_index, elements, Len(elements))
             EXCEPT !.mode = Absorbing(rate_start_index + Len(elements))]
    ELSE LET num_elements_absorbed == sp.rate - rate_start_index
             s1 == FoldInto(sp, rate_start_index, elements, num_elements_absorbed)
             s2 == permute(s1)
         IN  IF s2.res = "Err" THEN s2
             ELSE absorb_internal(s2, 0,
                      SubSeq(elements, num_elements_absorbed + 1, Len(elements)))

\* output[..n].clone_from_slice(&self.state[start..start + n])
ReadFrom(sp, start, n) ==
    [sp EXCEPT
        !.out = sp.out \o [i \in 1..n |-> sp.state[start + i]],
        !.log = sp.log \o [i \in 1..n |-> ReadEv(start + i - 1, sp.state[start + i])]]

\* len is output.len(): the part of the output slice still to be written
RECURSIVE squeeze_internal(_, _, _)
squeeze_internal(sp, rate_start_index, len) ==
    IF rate_start_index + len <= sp.rate
    THEN [ReadFrom(sp, rate_start_index, len)
             EXCEPT !.mode = Squeezing(rate_start_index + len)]
    ELSE LET num_elements_squeezed == sp.rate - rate_start_index
             s1 == ReadFrom(sp, rate_start_index, num_elements_squeezed)
             s2 == IF len # sp.rate THEN permute(s1) ELSE s1
         IN  IF s2.res = "Err" THEN s2
             ELSE squeeze_internal(s2, 0, len - num_elements_squeezed)

(***************************************************************************)
(* Canonicalization (AbsorbableGadget).  A type is a sequence of tags,     *)
(* outermost first: <<"Vec", "Option", "FpVar">> is Vec<Option<FpVar>>.    *)
(* A UInt8 is 0..255, a Boolean is TRUE/FALSE, an FpVar a field element,   *)
(* a Vec (or slice) a sequence, None is <<>> and Some(x) is <<x>>.         *)
(***************************************************************************)
\* (n as u64).to_le_bytes(), byte i of k
RECURSIVE le_bytes(_, _)
le_bytes(n, k) == IF k = 0 THEN <<>> ELSE <<n % 256>> \o le_bytes(n \div 256, k - 1)

\* the field element whose little-endian byte decomposition is the chunk
RECURSIVE le_bytes_to_fp(_)
le_bytes_to_fp(chunk) ==
    IF chunk = <<>> THEN 0
    ELSE Fadd(Head(chunk), Fmul(256, le_bytes_to_fp(Tail(chunk))))

\* [UInt8]::to_constraint_field: chunks of CAPACITY / 8 bytes, one element each
RECURSIVE to_constraint_field(_)
to_constraint_field(bytes) ==
    LET max_size == CAPACITY \div 8
    IN  IF bytes = <<>> THEN <<>>
        ELSE IF Len(bytes) <= max_size THEN <<le_bytes_to_fp(bytes)>>
        ELSE <<le_bytes_to_fp(SubSeq(bytes, 1, max_size))>>
                 \o to_constraint_field(SubSeq(bytes, max_size + 1, Len(bytes)))

RECURSIVE to_sponge_field_elements(_, _)
RECURSIVE default_batch(_, _)

\* batch_UInt8 with a fault: the length prefix is missing
batch_UInt8_unframed(batch) == to_constraint_field(batch)

\* impl AbsorbableGadget for UInt8: batch_to_sponge_field_elements
batch_UInt8(batch) == to_constraint_field(le_bytes(Len(batch), 8) \o batch)

\* batch_FpVar with a fault: the batch is framed with its length
batch_FpVar_framed(batch) == <<Len(batch)>> \o batch

\* impl AbsorbableGadget for FpVar: batch_to_sponge_field_elements
batch_FpVar(batch) == batch

\* the trait's default batch_to_sponge_field_elements
default_batch(ty, batch) ==
    IF batch = <<>> THEN <<>>
    ELSE to_sponge_field_elements(ty, Head(batch)) \o default_batch(ty, Tail(batch))

batch_to_sponge_field_elements(ty, batch) ==
    CASE Head(ty) = "UInt8" -> batch_UInt8(batch)
      [] Head(ty) = "FpVar" -> batch_FpVar(batch)
      [] OTHER -> default_batch(ty, batch)

\* impl AbsorbableGadget for Option<A>
option_to_sponge_field_elements(ty, v) ==
    <<IF v # <<>> THEN 1 ELSE 0>>
        \o (IF v # <<>> THEN to_sponge_field_elements(ty, v[1]) ELSE <<>>)

to_sponge_field_elements(ty, v) ==
    CASE Head(ty) = "UInt8" -> to_constraint_field(<<v>>)
      [] Head(ty) = "Boolean" -> <<IF v THEN 1 ELSE 0>>
      [] Head(ty) = "FpVar" -> <<v>>
      [] Head(ty) = "Vec" -> batch_to_sponge_field_elements(Tail(ty), v)
      [] Head(ty) = "Option" -> option_to_sponge_field_elements(Tail(ty), v)

\* failAt = CanonFault: to_sponge_field_elements itself reports the error.
\* Only the forms built by to_constraint_field go through the constraint
\* system; FpVar, Boolean and Option forms are Ok(..) unconditionally.
CanonFault == -1

CanonCanFail(ty) == \E i \in 1..Len(ty) : ty[i] = "UInt8"

(***************************************************************************)
(* The public operations (impl CryptographicSpongeVar for RescueSpongeVar) *)
(***************************************************************************)
\* absorb with a fault: in Squeezing mode it permutes only when the cursor is at rate
absorb_no_switch_permute(sp, ty, v) ==
    LET input == to_sponge_field_elements(ty, v)
        s1 == IF sp.mode.idx = sp.rate THEN permute(sp) ELSE sp
        absorb_index == IF sp.mode.idx = sp.rate THEN 0 ELSE sp.mode.idx
    IN  IF sp.failAt = CanonFault /\ CanonCanFail(ty) THEN [sp EXCEPT !.res = "Err"]
        ELSE IF input = <<>> THEN sp
        ELSE IF s1.res = "Err" THEN s1
        ELSE absorb_internal(s1, absorb_index, input)

\* absorb with a fault: in Absorbing mode it folds from position 0 again
\* instead of from next_absorb_index
absorb_restart_cursor(sp, ty, v) ==
    LET input == to_sponge_field_elements(ty, v)
    IN  IF sp.failAt = CanonFault /\ CanonCanFail(ty) THEN [sp EXCEPT !.res = "Err"]
        ELSE IF input = <<>> THEN sp
        ELSE IF sp.mode.kind = "Absorbing"
        THEN LET s1 == IF sp.mode.idx = sp.rate THEN permute(sp) ELSE sp
                 absorb_index == 0
             IN  IF s1.res = "Err" THEN s1
                 ELSE absorb_internal(s1, absorb_index, input)
        ELSE LET s1 == permute(sp)
             IN  IF s1.res = "Err" THEN s1 ELSE absorb_internal(s1, 0, input)

\* absorb with a fault: the early return for an empty input is missing
absorb_no_empty_return(sp, ty, v) ==
    LET input == to_sponge_field_elements(ty, v)
    IN  IF sp.failAt = CanonFault /\ CanonCanFail(ty) THEN [sp EXCEPT !.res = "Err"]
        ELSE IF sp.mode.kind = "Absorbing"
        THEN LET s1 == IF sp.mode.idx = sp.rate THEN permute(sp) ELSE sp
                 absorb_index == IF sp.mode.idx = sp.rate THEN 0 ELSE sp.mode.idx
             IN  IF s1.res = "Err" THEN s1
                 ELSE absorb_internal(s1, absorb_index, input)
        ELSE LET s1 == permute(sp)
             IN  IF s1.res = "Err" THEN s1 ELSE absorb_internal(s1, 0, input)

absorb(sp, ty, v) ==
    LET input == to_sponge_field_elements(ty, v)
    IN  IF sp.failAt = CanonFault /\ CanonCanFail(ty) THEN [sp EXCEPT !.res = "Err"]
        ELSE IF input = <<>> THEN sp
        ELSE IF sp.mode.kind = "Absorbing"
        THEN LET s1 == IF sp.mode.idx = sp.rate THEN permute(sp) ELSE sp
                 absorb_index == IF sp.mode.idx = sp.rate THEN 0 ELSE sp.mode.idx
             IN  IF s1.res = "Err" THEN s1
                 ELSE absorb_internal(s1, absorb_index, input)
        ELSE LET s1 == permute(sp)
             IN  IF s1.res = "Err" THEN s1 ELSE absorb_internal(s1, 0, input)

\* squeeze_field_elements with a fault: it returns at once when nothing is requested
squeeze_field_elements_skip_empty(sp, num_elements) ==
    IF num_elements = 0 THEN sp
    ELSE IF sp.mode.kind = "Absorbing"
    THEN LET s1 == permute(sp)
         IN  IF s1.res = "Err" THEN s1 ELSE squeeze_internal(s1, 0, num_elements)
    ELSE LET s1 == IF sp.mode.idx = sp.rate THEN permute(sp) ELSE sp
             squeeze_index == IF sp.mode.idx = sp.rate THEN 0 ELSE sp.mode.idx
         IN  IF s1.res = "Err" THEN s1
             ELSE squeeze_internal(s1, squeeze_index, num_elements)

\* squeeze_field_elements with a fault: the Absorbing arm is missing, so a
\* squeeze right after an absorb carries on from the absorb cursor
squeeze_field_elements_no_switch_permute(sp, num_elements) ==
    LET s1 == IF sp.mode.idx = sp.rate THEN permute(sp) ELSE sp
        squeeze_index == IF sp.mode.idx = sp.rate THEN 0 ELSE sp.mode.idx
    IN  IF s1.res = "Err" THEN s1
        ELSE squeeze_internal(s1, squeeze_index, num_elements)

squeeze_field_elements(sp, num_elements) ==
    IF sp.mode.kind = "Absorbing"
    THEN LET s1 == permute(sp)
         IN  IF s1.res = "Err" THEN s1 ELSE squeeze_internal(s1, 0, num_elements)
    ELSE LET s1 == IF sp.mode.idx = sp.rate THEN permute(sp) ELSE sp
             squeeze_index == IF sp.mode.idx = sp.rate THEN 0 ELSE sp.mode.idx
         IN  IF s1.res = "Err" THEN s1
             ELSE squeeze_internal(s1, squeeze_index, num_elements)

\* FpVar::to_bits_le: the MODULUS_BITS bits of the element, low bit first
RECURSIVE bits_le(_, _)
bits_le(x, k) == IF k = 0 THEN <<>> ELSE <<x % 2>> \o bits_le(x \div 2, k - 1)

to_bits_le(elem) == bits_le(elem, MODULUS_BITS)

\* FpVar::to_bytes: the little-endian bytes of the element's 64-bit limbs
to_bytes(elem) == le_bytes(elem, 8 * ((MODULUS_BITS + 63) \div 64))

\* for elem in &src_elements { out.extend_from_slice(&conv(elem)[..usable]) }
RECURSIVE ExtendBytes(_, _)
ExtendBytes(src_elements, usable_bytes) ==
    IF src_elements = <<>> THEN <<>>
    ELSE SubSeq(to_bytes(Head(src_elements)), 1, usable_bytes)
             \o ExtendBytes(Tail(src_elements), usable_bytes)

RECURSIVE ExtendBits(_, _)
ExtendBits(src_elements, usable_bits) ==
    IF src_elements = <<>> THEN <<>>
    ELSE SubSeq(to_bits_le(Head(src_elements)), 1, usable_bits)
             \o ExtendBits(Tail(src_elements), usable_bits)

\* Vec::truncate
truncate(seq, n) == IF Len(seq) > n THEN SubSeq(seq, 1, n) ELSE seq

\* squeeze_bytes with a fault: the final bytes.truncate(num_bytes) is missing
squeeze_bytes_no_truncate(sp, num_bytes) ==
    LET usable_bytes == CAPACITY \div 8
        num_elements == (num_bytes + usable_bytes - 1) \div usable_bytes
        s1 == squeeze_field_elements(sp, num_elements)
    IN  IF s1.res = "Err" THEN s1
        ELSE [s1 EXCEPT !.out = ExtendBytes(s1.out, usable_bytes)]

squeeze_bytes(sp, num_bytes) ==
    LET usable_bytes == CAPACITY \div 8
        num_elements == (num_bytes + usable_bytes - 1) \div usable_bytes
        s1 == squeeze_field_elements(sp, num_elements)
    IN  IF s1.res = "Err" THEN s1
        ELSE [s1 EXCEPT !.out = truncate(ExtendBytes(s1.out, usable_bytes), num_bytes)]

squeeze_bits(sp, num_bits) ==
    LET usable_bits == CAPACITY
        num_elements == (num_bits + usable_bits - 1) \div usable_bits
        s1 == squeeze_field_elements(sp, num_elements)
    IN  IF s1.res = "Err" THEN s1
        ELSE [s1 EXCEPT !.out = truncate(ExtendBits(s1.out, usable_bits), num_bits)]

(***************************************************************************)
(* The sponge as a state machine.  One action per public operation; each   *)
(* records the call it made in last (and the call before it in prev).      *)
(* A caller drops an instance whose call returned an error.                *)
(***************************************************************************)
NoCall ==
    [op |-> "none", n |-> 0, input |-> <<>>, pre |-> Absorbing(0),
     log |-> <<>>, out |-> <<>>, res |-> "Ok", fault |-> 0]

\* fault: the pow_by_constant call that failed, when the call returned Err
CallRec(op, n, input, r) ==
    [op |-> op, n |-> n, input |-> input, pre |-> mode,
     log |-> r.log, out |-> IF r.res = "Ok" THEN r.out ELSE <<>>, res |-> r.res,
     fault |-> IF r.res = "Err" THEN r.pows ELSE 0]

\* the instance the next call runs on
Self(f) == Sponge(rate, capacity, state, mode, f)

CanonIdle == [pc |-> "idle", ty |-> <<>>, v |-> <<>>, f |-> <<>>]

\* no call is in progress
RunIdle == [pc |-> "idle", start |-> 0, elements |-> <<>>, len |-> 0, first |-> FALSE]

\* values handed to absorb: the field-element vectors <<1, 2, ..>> of every
\* length up to 2 * rate + 1, the field element 1, and the empty byte batch
FpVec(len) == Vector([i \in 1..len |-> i], len)

AbsorbTypes == {<<"Vec", "FpVar">>, <<"FpVar">>, <<"Vec", "UInt8">>}

AbsorbValues(ty) ==
    CASE ty = <<"Vec", "FpVar">> -> {FpVec(len) : len \in 0..(2 * rate + 1)}
      [] ty = <<"FpVar">> -> {1}
      [] ty = <<"Vec", "UInt8">> -> {<<>>}

BitCounts == {0, 1, CAPACITY, CAPACITY + 1}

\* where the constraint system may fail a call: nowhere (0), at one of the
\* first pow_by_constant calls of its first permutation, or at the first
\* pow_by_constant call of its second permutation
FaultPoints == (0..MaxFail) \cup {2 * rounds * (rate + capacity) + 1}

\* the fault point f is one the call r came to: a call fails only at a step
\* it runs
Reached(f, r) == f = 0 \/ r.res = "Err"

Init ==
    /\ rate \in 1..MaxRate
    /\ capacity \in 1..MaxCapacity
    /\ state = new(rate, capacity, 0).state
    /\ mode = new(rate, capacity, 0).mode
    /\ ncalls = 0
    /\ last = NoCall
    /\ prev = NoCall
    /\ trace = <<>>
    /\ canon = CanonIdle
    /\ run = RunIdle

Record(op, n, input, r) ==
    /\ state' = r.state
    /\ mode' = r.mode
    /\ ncalls' = ncalls + 1
    /\ prev' = last
    /\ last' = CallRec(op, n, input, r)
    /\ trace' = trace \o r.log
    /\ UNCHANGED <<rate, capacity, canon, run>>

CanCall == ncalls < MaxCalls /\ last.res = "Ok"

Absorb ==
    /\ CanCall
    /\ \E ty \in AbsorbTypes, f \in FaultPoints \cup {CanonFault} :
          \E v \in AbsorbValues(ty) :
             \E r \in {absorb(Self(f), ty, v)} :
                /\ Reached(f, r)
                /\ Record("absorb", 0, to_sponge_field_elements(ty, v), r)

SqueezeFieldElements ==
    /\ CanCall
    /\ \E n \in 0..(2 * rate + 1), f \in FaultPoints :
          \E r \in {squeeze_field_elements(Self(f), n)} :
             Reached(f, r) /\ Record("squeeze_field_elements", n, <<>>, r)

SqueezeBytes ==
    /\ CanCall
    /\ \E n \in 0..MaxBytes, f \in FaultPoints :
          \E r \in {squeeze_bytes(Self(f), n)} :
             Reached(f, r) /\ Record("squeeze_bytes", n, <<>>, r)

SqueezeBits ==
    /\ CanCall
    /\ \E n \in BitCounts, f \in FaultPoints :
          \E r \in {squeeze_bits(Self(f), n)} :
             Reached(f, r) /\ Record("squeeze_bits", n, <<>>, r)

Next == Absorb \/ SqueezeFieldElements \/ SqueezeBytes \/ SqueezeBits

Spec == Init /\ [][Next]_vars

(***************************************************************************)
(* Canonicalization as a state machine of its own: Init draws a type and   *)
(* a value of it, Canonicalize applies to_sponge_field_elements.           *)
(***************************************************************************)
SeqsUpTo(S, n) == UNION {[1..k -> S] : k \in 0..n}

RECURSIVE ValuesOf(_)
ValuesOf(ty) ==
    CASE Head(ty) = "UInt8" -> {0, 1, 255}
      [] Head(ty) = "Boolean" -> BOOLEAN
      [] Head(ty) = "FpVar" -> {0, 1}
      [] Head(ty) = "Vec" -> SeqsUpTo(ValuesOf(Tail(ty)), MaxBatch)
      [] Head(ty) = "Option" -> {<<>>} \cup {<<x>> : x \in ValuesOf(Tail(ty))}

CanonTypes ==
    {<<"UInt8">>, <<"Boolean">>, <<"FpVar">>,
     <<"Option", "UInt8">>, <<"Option", "Boolean">>, <<"Option", "FpVar">>,
     <<"Vec", "UInt8">>, <<"Vec", "Boolean">>, <<"Vec", "FpVar">>,
     <<"Vec", "Option", "FpVar">>, <<"Option", "Vec", "FpVar">>,
     <<"Vec", "Vec", "UInt8">>, <<"Vec", "Vec", "FpVar">>, <<"Vec", "Vec", "Boolean">>}

CanonInit ==
    /\ rate = 1
    /\ capacity = 1
    /\ state = new(rate, capacity, 0).state
    /\ mode = new(rate, capacity, 0).mode
    /\ ncalls = 0
    /\ last = NoCall
    /\ prev = NoCall
    /\ trace = <<>>
    /\ run = RunIdle
    /\ \E ty \in CanonTypes : \E v \in ValuesOf(ty) :
          canon = [pc |-> "input", ty |-> ty, v |-> v, f |-> <<>>]

Canonicalize ==
    /\ canon.pc = "input"
    /\ canon' = [canon EXCEPT !.pc = "done",
                              !.f = to_sponge_field_elements(canon.ty, canon.v)]
    /\ UNCHANGED <<rate, capacity, state, mode, ncalls, last, prev, trace, run>>

CanonNext == Canonicalize

SpecCanon == CanonInit /\ [][CanonNext]_vars

(***************************************************************************)
(* The calls again, one activation of absorb_internal or squeeze_internal  *)
(* at a step.  run holds the activation about to run: its                  *)
(* rate_start_index, the slice of elements still to absorb (or the length  *)
(* of the output slice still to fill), and whether it is the first one of  *)
(* the call.  self.state is updated in place, self.mode when the last      *)
(* activation finishes.  The code is synchronous and has no suspension     *)
(* point, so the activation of a call in progress does run (weak fairness  *)
(* on the steps that change run).                                          *)
(***************************************************************************)
\* one activation of absorb_internal with a fault: the recursive call gets
\* the whole slice again instead of &elements[num_elements_absorbed..]
absorb_internal_step_no_advance(sp, rate_start_index, elements) ==
    IF rate_start_index + Len(elements) <= sp.rate
    THEN [sp |-> [FoldInto(sp, rate_start_index, elements, Len(elements))
                     EXCEPT !.mode = Absorbing(rate_start_index + Len(elements))],
          done |-> TRUE, elements |-> <<>>]
    ELSE LET num_elements_absorbed == sp.rate - rate_start_index
         IN  [sp |-> permute(FoldInto(sp, rate_start_index, elements, num_elements_absorbed)),
              done |-> FALSE, elements |-> elements]

\* one activation of absorb_internal, up to its recursive call
absorb_internal_step(sp, rate_start_index, elements) ==
    IF rate_start_index + Len(elements) <= sp.rate
    THEN [sp |-> [FoldInto(sp, rate_start_index, elements, Len(elements))
                     EXCEPT !.mode = Absorbing(rate_start_index + Len(elements))],
          done |-> TRUE, elements |-> <<>>]
    ELSE LET num_elements_absorbed == sp.rate - rate_start_index
         IN  [sp |-> permute(FoldInto(sp, rate_start_index, elements, num_elements_absorbed)),
              done |-> FALSE,
              elements |-> SubSeq(elements, num_elements_absorbed + 1, Len(elements))]

\* one activation of squeeze_internal, up to its recursive call
squeeze_internal_step(sp, rate_start_index, len) ==
    IF rate_start_index + len <= sp.rate
    THEN [sp |-> [ReadFrom(sp, rate_start_index, len)
                     EXCEPT !.mode = Squeezing(rate_start_index + len)],
          done |-> TRUE, len |-> 0]
    ELSE LET num_elements_squeezed == sp.rate - rate_start_index
             s1 == ReadFrom(sp, rate_start_index, num_elements_squeezed)
         IN  [sp |-> IF len # sp.rate THEN permute(s1) ELSE s1,
              done |-> FALSE, len |-> len - num_elements_squeezed]

\* absorb, from the mode match to the call of absorb_internal
absorb_entry(sp) ==
    IF sp.mode.kind = "Absorbing" /\ sp.mode.idx # sp.rate
    THEN [sp |-> sp, start |-> sp.mode.idx]
    ELSE [sp |-> permute(sp), start |-> 0]

\* squeeze_field_elements, from the mode match to the call of squeeze_internal
squeeze_entry(sp) ==
    IF sp.mode.kind = "Squeezing" /\ sp.mode.idx # sp.rate
    THEN [sp |-> sp, start |-> sp.mode.idx]
    ELSE [sp |-> permute(sp), start |-> 0]

\* the number of field elements a squeeze asks squeeze_field_elements for
NumElements(op, n) ==
    CASE op = "squeeze_field_elements" -> n
      [] op = "squeeze_bytes" -> (n + CAPACITY \div 8 - 1) \div (CAPACITY \div 8)
      [] op = "squeeze_bits" -> (n + CAPACITY - 1) \div CAPACITY

SqueezeCounts(op) ==
    CASE op = "squeeze_field_elements" -> 0..(2 * rate + 1)
      [] op = "squeeze_bytes" -> 0..MaxBytes
      [] op = "squeeze_bits" -> BitCounts

InPlace(sp) ==
    /\ state' = sp.state
    /\ mode' = sp.mode
    /\ UNCHANGED <<rate, capacity, last, prev, trace, canon>>

BeginAbsorb ==
    /\ run.pc = "idle" /\ ncalls < MaxCalls
    /\ \E input \in AbsorbValues(<<"Vec", "FpVar">>) :
          IF input = <<>>
          THEN /\ InPlace(Self(0))
               /\ ncalls' = ncalls + 1
               /\ run' = RunIdle
          ELSE LET e == absorb_entry(Self(0))
               IN  /\ InPlace(e.sp)
                   /\ ncalls' = ncalls
                   /\ run' = [pc |-> "absorb_internal", start |-> e.start,
                              elements |-> input, len |-> Len(input), first |-> TRUE]

BeginSqueeze ==
    /\ run.pc = "idle" /\ ncalls < MaxCalls
    /\ \E op \in {"squeeze_field_elements", "squeeze_bytes", "squeeze_bits"} :
          \E n \in SqueezeCounts(op) :
             LET e == squeeze_entry(Self(0))
             IN  /\ InPlace(e.sp)
                 /\ ncalls' = ncalls
                 /\ run' = [pc |-> "squeeze_internal", start |-> e.start,
                            elements |-> <<>>, len |-> NumElements(op, n), first |-> TRUE]

AbsorbStep ==
    /\ run.pc = "absorb_internal"
    /\ LET a == absorb_internal_step(Self(0), run.start, run.elements)
       IN  /\ InPlace(a.sp)
           /\ ncalls' = IF a.done THEN ncalls + 1 ELSE ncalls
           /\ run' = IF a.done THEN RunIdle
                     ELSE [run EXCEPT !.start = 0, !.elements = a.elements,
                                      !.len = Len(a.elements), !.first = FALSE]

SqueezeStep ==
    /\ run.pc = "squeeze_internal"
    /\ LET a == squeeze_internal_step(Self(0), run.start, run.len)
       IN  /\ InPlace(a.sp)
           /\ ncalls' = IF a.done THEN ncalls + 1 ELSE ncalls
           /\ run' = IF a.done THEN RunIdle
                     ELSE [run EXCEPT !.start = 0, !.len = a.len, !.first = FALSE]

StepNext == BeginAbsorb \/ BeginSqueeze \/ AbsorbStep \/ SqueezeStep

\* what run can be after a step of the call in progress
RunValues ==
    {RunIdle} \cup
    [pc : {run.pc}, start : 0..rate, len : 0..run.len, first : BOOLEAN,
     elements : {SubSeq(run.elements, k, Len(run.elements)) :
                    k \in 1..(Len(run.elements) + 1)}]

\* the call in progress takes a step: its activation runs
Advance == run.pc # "idle" /\ run' \in RunValues

SpecSteps == Init /\ [][StepNext]_vars /\ WF_run(Advance)

(***************************************************************************)
(* Reading a call's log.                                                   *)
(***************************************************************************)
CountEv(log, e) == Cardinality({i \in 1..Len(log) : log[i].ev = e})

IsRead(x) == x.ev = "read"

\* the elements a call read from the state, in the order it read them
ReadVals(log) ==
    LET reads == SelectSeq(log, IsRead)
    IN  Vector([i \in 1..Len(reads) |-> reads[i].val], Len(reads))

CeilDiv(a, b) == (a + b - 1) \div b

FirstCall(op) == ncalls = 1 /\ last.op = op /\ last.res = "Ok"

(***************************************************************************)
(* C1 (as claimed): squeeze_field_elements(0) on a newly constructed       *)
(* sponge returns an empty sequence, runs no permutation and leaves the    *)
(* mode and cursor as they were, Absorbing{0}.                             *)
(***************************************************************************)
C1_ZeroSqueezeLeavesSponge ==
    (FirstCall("squeeze_field_elements") /\ last.n = 0) =>
        /\ last.out = <<>>
        /\ CountEv(last.log, "permute") = 0
        /\ mode = last.pre
        /\ mode = Absorbing(0)

(***************************************************************************)
(* C1 (amended): a successful squeeze_field_elements(0) on a newly         *)
(* constructed sponge returns an empty sequence and reads nothing, but     *)
(* runs exactly one permutation and leaves the sponge in Squeezing{0}.     *)
(***************************************************************************)
C1_ZeroSqueezePermutesOnce ==
    (FirstCall("squeeze_field_elements") /\ last.n = 0) =>
        /\ last.out = <<>>
        /\ last.log = <<PermuteEv>>
        /\ last.pre = Absorbing(0)
        /\ mode = Squeezing(0)

C1_Witness == FirstCall("squeeze_field_elements") /\ last.n = 0 /\ capacity >= 1

(***************************************************************************)
(* C2: an absorb of a non-empty canonical form issued in Squeezing{idx},   *)
(* whatever idx in 0..rate, runs exactly one permutation before the first  *)
(* new element is added to the state, and that element is added at rate    *)
(* position 0.  (If that permutation fails nothing is added at all; a call *)
(* whose canonicalization failed has no canonical form to absorb.)         *)
(***************************************************************************)
CanonFailed(c) == c.op = "absorb" /\ c.res = "Err" /\ c.log = <<>>

\* C2: the first event of an absorb in Squeezing mode is the permutation
C2_ModeSwitchCost ==
    (last.op = "absorb" /\ last.pre.kind = "Squeezing" /\ last.input # <<>>
        /\ ~CanonFailed(last)) =>
        /\ last.pre.idx \in 0..rate
        /\ Len(last.log) >= 1
        /\ last.log[1] = PermuteEv
        /\ last.res = "Ok" =>
              /\ Len(last.log) >= 2
              /\ last.log[2] = FoldEv(0, last.input[1])

C2_Witness ==
    /\ last.op = "absorb" /\ last.res = "Ok" /\ last.input # <<>>
    /\ last.pre = Squeezing(rate)
    /\ rate > 1

(***************************************************************************)
(* C3: a successful absorb of a canonical form of length L >= 1 issued in  *)
(* Absorbing{idx} runs exactly ceil((idx + L) / rate) - 1 permutations and *)
(* ends in Absorbing{idx + L - rate * permutations}; so length 2*rate+1    *)
(* from cursor 0 runs two and ends at cursor 1, and length rate from       *)
(* cursor 0 runs none and ends at cursor rate.                             *)
(***************************************************************************)
C3_OverflowCount ==
    (last.op = "absorb" /\ last.res = "Ok" /\ last.pre.kind = "Absorbing"
        /\ last.input # <<>>) =>
        LET L == Len(last.input)
            idx == last.pre.idx
            perms == CountEv(last.log, "permute")
        IN  /\ perms = CeilDiv(idx + L, rate) - 1
            /\ mode = Absorbing(idx + L - rate * perms)
            /\ (idx = 0 /\ L = 2 * rate + 1) => (perms = 2 /\ mode = Absorbing(1))
            /\ (idx = 0 /\ L = rate) => (perms = 0 /\ mode = Absorbing(rate))

C3_Witness ==
    /\ last.op = "absorb" /\ last.res = "Ok"
    /\ last.pre = Absorbing(rate)
    /\ Len(last.input) = 2 * rate + 1
    /\ rate > 1

(***************************************************************************)
(* C4 (as claimed): on a newly constructed sponge squeeze_bytes(n) and     *)
(* then squeeze_bytes(m) return the first n and the next m bytes of what   *)
(* squeeze_bytes(n + m) returns on an identically constructed sponge.      *)
(* Stated for the n that are a whole number of field elements, where the   *)
(* first call's truncation discards nothing.                               *)
(***************************************************************************)
C4_SplitConsistency ==
    (ncalls = 2 /\ prev.op = "squeeze_bytes" /\ last.op = "squeeze_bytes"
        /\ prev.res = "Ok" /\ last.res = "Ok"
        /\ prev.n % (CAPACITY \div 8) = 0) =>
        LET whole == squeeze_bytes(new(rate, capacity, 0), prev.n + last.n).out
        IN  /\ prev.out = SubSeq(whole, 1, prev.n)
            /\ last.out = SubSeq(whole, prev.n + 1, prev.n + last.n)

(***************************************************************************)
(* C5: a successful squeeze_bytes(n) (squeeze_bits(n)) reads exactly       *)
(* ceil(n / u) field elements, u the usable bytes (bits) of an element,    *)
(* and returns exactly n bytes (bits): byte (bit) k of the output is       *)
(* low-order byte (bit) (k-1) mod u of the element read ((k-1) div u)+1 th.*)
(***************************************************************************)
C5_ExactLength ==
    (last.res = "Ok" /\ last.op \in {"squeeze_bytes", "squeeze_bits"}) =>
        LET u == IF last.op = "squeeze_bytes" THEN CAPACITY \div 8 ELSE CAPACITY
            base == IF last.op = "squeeze_bytes" THEN 256 ELSE 2
            elems == ReadVals(last.log)
        IN  /\ Len(elems) = CeilDiv(last.n, u)
            /\ Len(last.out) = last.n
            /\ \A k \in 1..last.n :
                  last.out[k] =
                      (elems[((k - 1) \div u) + 1] \div (base ^ ((k - 1) % u))) % base

C5_Witness ==
    /\ last.op = "squeeze_bytes" /\ last.res = "Ok"
    /\ last.n > CAPACITY \div 8
    /\ last.n % (CAPACITY \div 8) # 0
    /\ \E k \in 1..last.n : last.out[k] # 0

Canonicalized(ty) == canon.pc = "done" /\ canon.ty = ty

(***************************************************************************)
(* C6 (as claimed): canonicalization is injective per type: no other value *)
(* of the canonicalized value's type has the same canonical form.          *)
(***************************************************************************)
C6_Injective ==
    canon.pc = "done" =>
        \A b \in ValuesOf(canon.ty) :
            b # canon.v => to_sponge_field_elements(canon.ty, b) # canon.f

(***************************************************************************)
(* C8: a batch of field elements canonicalizes to exactly its elements in  *)
(* order; the batch <<x>> canonicalizes as x itself does, and the empty    *)
(* batch to the empty sequence.                                            *)
(***************************************************************************)
C8_FieldBatchUnframed ==
    Canonicalized(<<"Vec", "FpVar">>) =>
        /\ Len(canon.f) = Len(canon.v)
        /\ \A i \in 1..Len(canon.v) : canon.f[i] = canon.v[i]
        /\ Len(canon.v) = 1 =>
              canon.f = to_sponge_field_elements(<<"FpVar">>, canon.v[1])
        /\ canon.v = <<>> => canon.f = <<>>

C8_Witness ==
    Canonicalized(<<"Vec", "FpVar">>) /\ Len(canon.v) = 1 /\ canon.v[1] = 1

(***************************************************************************)
(* C9: a batch of n bytes canonicalizes as the one byte sequence made of   *)
(* the 8-byte little-endian encoding of n followed by the n bytes: element *)
(* k packs bytes (k-1)*u+1 .. k*u of that sequence, low byte first, u the  *)
(* usable bytes of an element.  So the batch <<b>> differs from b's own    *)
(* canonical form and the empty batch has a non-empty canonical form.      *)
(***************************************************************************)
\* byte i of the prefixed sequence of batch v (Len(v) < 2^24)
PrefixedByte(v, i) ==
    IF i > 8 + Len(v) THEN 0
    ELSE IF i > 8 THEN v[i - 8]
    ELSE IF i <= 3 THEN (Len(v) \div (256 ^ (i - 1))) % 256
    ELSE 0

RECURSIVE PackedFrom(_, _, _, _)
PackedFrom(v, k, u, j) ==
    IF j >= u THEN 0
    ELSE PrefixedByte(v, (k - 1) * u + j + 1) * (256 ^ j) + PackedFrom(v, k, u, j + 1)

\* C9: the canonical form of a byte batch, element by element
C9_ByteBatchPrefixed ==
    Canonicalized(<<"Vec", "UInt8">>) =>
        LET u == CAPACITY \div 8
        IN  /\ Len(canon.f) = CeilDiv(8 + Len(canon.v), u)
            /\ \A k \in 1..Len(canon.f) : canon.f[k] = PackedFrom(canon.v, k, u, 0)
            /\ canon.f # <<>>
            /\ Len(canon.v) = 1 =>
                  canon.f # to_sponge_field_elements(<<"UInt8">>, canon.v[1])

C9_Witness ==
    Canonicalized(<<"Vec", "UInt8">>) /\ Len(canon.v) = 1 /\ canon.v[1] = 255

(***************************************************************************)
(* The reference (non-circuit) Rescue permutation, crate::rescue::         *)
(* RescueSponge, as the specification describes its round function: key    *)
(* state and key injection start at initial_constant, the key state is     *)
(* added to the state, and each of the 2 * rounds sub-rounds raises key    *)
(* state and state to inv_alpha (even) or alpha (odd) and then updates     *)
(* key injection, key state and state, in this order.                      *)
(***************************************************************************)
RECURSIVE RefSum(_, _, _)
RefSum(row, vec, j) ==
    IF j = 0 THEN 0 ELSE (RefSum(row, vec, j - 1) + Fmul(row[j], vec[j])) % MODULUS

RefAffine(m, v, c) ==
    Vector([i \in 1..Len(v) |-> (RefSum(m[i], v, Len(v)) + c[i]) % MODULUS], Len(v))

RefPower(v, e) == Vector([i \in 1..Len(v) |-> Fpow(v[i], e)], Len(v))

RECURSIVE RefRounds(_, _, _, _)
RefRounds(r, st, key_state, key_injection) ==
    IF Len(st) = 0 \/ r = 2 * rounds THEN st
    ELSE LET w == Len(st)
             e == IF r % 2 = 0 THEN invalpha ELSE alpha
             ki == RefAffine(constants_matrix(w), key_injection, constants_constant(w))
             ks == RefAffine(mds(w), RefPower(key_state, e), ki)
         IN  RefRounds(r + 1, RefAffine(mds(w), RefPower(st, e), ks), ks, ki)

RefPermute(st) ==
    LET w == Len(st)
        keyed == Vector([i \in 1..w |-> (st[i] + initial_constant(w)[i]) % MODULUS], w)
    IN  RefRounds(0, keyed, initial_constant(w), initial_constant(w))

\* <<e_1, .., e_k, 0, .., 0>> of length w
Padded(elems, w) == Vector([i \in 1..w |-> IF i <= Len(elems) THEN elems[i] ELSE 0], w)

(***************************************************************************)
(* C10: on a newly constructed sponge, absorbing k field elements          *)
(* (1 <= k <= rate) and then squeezing n field elements (1 <= n <= rate)   *)
(* runs exactly one permutation and returns the first n elements of the    *)
(* reference permutation of <<e_1, .., e_k, 0, .., 0>>.                    *)
(***************************************************************************)
C10_Scenario ==
    /\ ncalls = 2
    /\ prev.op = "absorb" /\ prev.res = "Ok" /\ prev.pre = Absorbing(0)
    /\ Len(prev.input) \in 1..rate
    /\ last.op = "squeeze_field_elements" /\ last.res = "Ok"
    /\ last.n \in 1..rate

\* C10: the gadget's output in that scenario is the reference permutation's
C10_MatchesReference ==
    C10_Scenario =>
        /\ CountEv(prev.log, "permute") + CountEv(last.log, "permute") = 1
        /\ last.out = SubSeq(RefPermute(Padded(prev.input, rate + capacity)), 1, last.n)
        /\ Len(last.out) = last.n

\* rate = 2, capacity = 1, rounds = 1: absorb the field element 1, squeeze one
C10_Witness ==
    /\ C10_Scenario
    /\ rate = 2 /\ capacity = 1 /\ rounds = 1
    /\ prev.input = <<1>> /\ last.n = 1
    /\ last.out = <<RefPermute(<<1, 0, 0>>)[1]>>

(***************************************************************************)
(* Helpers over the transitions of the sponge machine                      *)
(***************************************************************************)
\* the call recorded in c, made on the sponge sp
SameCall(c, sp) ==
    CASE c.op = "absorb" -> absorb(sp, <<"Vec", "FpVar">>, c.input)
      [] c.op = "squeeze_field_elements" -> squeeze_field_elements(sp, c.n)
      [] c.op = "squeeze_bytes" -> squeeze_bytes(sp, c.n)
      [] c.op = "squeeze_bits" -> squeeze_bits(sp, c.n)

IsPrefix(a, b) == Len(a) <= Len(b) /\ a = SubSeq(b, 1, Len(a))

\* a call was made in this step
Called == ncalls' = ncalls + 1

\* the state vector p after the event e has run to completion
AfterEvent(p, e) ==
    CASE e.ev = "fold" -> [p EXCEPT ![e.pos + 1] = Fadd(p[e.pos + 1], e.val)]
      [] e.ev = "permute" -> permute(Sponge(rate, capacity, p, mode, 0)).state
      [] OTHER -> p

\* the state vector st after the first i events of lg have run to completion
\* (the vector before the i-th event is evaluated once, then the event applied)
RECURSIVE Replayed(_, _, _)
Replayed(st, lg, i) ==
    IF i = 0 THEN st
    ELSE CHOOSE q \in {AfterEvent(p, lg[i]) : p \in {Replayed(st, lg, i - 1)}} : TRUE

(***************************************************************************)
(* C11: when canonicalization or a permutation reports an error during     *)
(* absorb or a squeeze, the call returns the error and no value, runs no   *)
(* fold, read or permutation after the failed step and does not retry it,  *)
(* and the state keeps what was done before the failure: the folds, the    *)
(* completed permutations, the key addition and the elements already       *)
(* raised by the failed permutation.  A failed canonicalization leaves the *)
(* sponge untouched.                                                       *)
(***************************************************************************)
C11_ErrStep ==
    (Called /\ last'.res = "Err") =>
        \A lg \in {last'.log}, w \in {rate + capacity} :
        \A k \in {CountEv(lg, "permute")} :
        \A fi \in {last'.fault - (k - 1) * 2 * rounds * w} :
            /\ last'.out = <<>>
            /\ mode' = mode
            /\ \A full \in {SameCall(last', Self(0)).log} : IsPrefix(lg, full)
            /\ k = CeilDiv(last'.fault, 2 * rounds * w)
            /\ lg = <<>> => (last'.op = "absorb" /\ state' = state)
            /\ lg # <<>> =>
                  /\ lg[Len(lg)] = PermuteEv
                  /\ fi \in 1..w =>
                        \A before \in {Replayed(state, lg, Len(lg) - 1)},
                           key \in {initial_constant(w)} :
                            state' = Vector([i \in 1..w |->
                                        IF i < fi
                                        THEN Fpow(Fadd(before[i], key[i]), invalpha)
                                        ELSE Fadd(before[i], key[i])], w)

\* C11: every step in which a call fails is such a step
C11_ErrorPropagation == [][C11_ErrStep]_vars

\* rate = 2, capacity = 1: absorb <<1, 2, 3>> on the new sponge, the first
\* pow_by_constant of the permutation fails; both folds and the key
\* addition of initial_constant = <<1, 2, 3>> are kept
C11_Witness ==
    /\ rate = 2 /\ capacity = 1 /\ ncalls = 1
    /\ last.op = "absorb" /\ last.res = "Err" /\ last.fault = 1
    /\ last.log = <<FoldEv(0, 1), FoldEv(1, 2), PermuteEv>>
    /\ state = <<2, 4, 3>>
    /\ mode = Absorbing(0)

(***************************************************************************)
(* Helpers over the events since construction                              *)
(***************************************************************************)
IsAccess(e) == e.ev = "fold" \/ e.ev = "read"

\* a permutation ran between the events i and j of the trace
PermutedBetween(i, j) == \E k \in (i + 1)..(j - 1) : trace[k] = PermuteEv

(***************************************************************************)
(* C12: the mode is Absorbing{idx} or Squeezing{idx} with                  *)
(* 0 <= idx <= rate; every fold and read is at a rate position; and once   *)
(* a fold or read at position rate - 1 has taken the cursor to rate, the   *)
(* next fold or read comes only after a permutation.                       *)
(***************************************************************************)
C12_CursorInvariant ==
    /\ mode.kind \in {"Absorbing", "Squeezing"}
    /\ mode.idx \in 0..rate
    /\ \A i \in 1..Len(trace) :
          IsAccess(trace[i]) =>
              /\ trace[i].pos \in 0..(rate - 1)
              /\ (i > 1 /\ IsAccess(trace[i - 1])) => trace[i - 1].pos # rate - 1
    /\ (last.pre.idx = rate /\ last.log # <<>>) => last.log[1] = PermuteEv

(***************************************************************************)
(* C13: every element a squeeze returns is read after a permutation that   *)
(* ran later than the most recent fold; a squeeze called in Absorbing      *)
(* mode permutes first, and exactly once before its first read, which is   *)
(* at position 0.                                                          *)
(***************************************************************************)
C13_NoUnpermutedOutput ==
    /\ \A i \in 1..Len(trace) :
          trace[i].ev = "read" =>
              \E j \in 1..(i - 1) :
                  /\ trace[j] = PermuteEv
                  /\ \A k \in (j + 1)..(i - 1) : trace[k].ev # "fold"
    /\ (last.op \in {"squeeze_field_elements", "squeeze_bytes", "squeeze_bits"}
          /\ last.pre.kind = "Absorbing") =>
              /\ last.log # <<>> /\ last.log[1] = PermuteEv
              /\ Len(last.log) >= 2 =>
                    (last.log[2].ev = "read" /\ last.log[2].pos = 0)

\* absorb one element (cursor 1, rate 2), then squeeze two elements
C13_Witness ==
    /\ rate = 2 /\ ncalls = 2
    /\ prev.op = "absorb" /\ prev.res = "Ok" /\ prev.log = <<FoldEv(0, 1)>>
    /\ last.op = "squeeze_field_elements" /\ last.res = "Ok"
    /\ last.pre = Absorbing(1)
    /\ Len(last.out) = 2
    /\ last.log[1] = PermuteEv /\ last.log[2].pos = 0 /\ last.log[3].pos = 1

(***************************************************************************)
(* C14: absorbing a value whose canonical form is empty runs no            *)
(* permutation and no fold and leaves state, mode and cursor as they       *)
(* were, in Absorbing mode (cursor = rate included) and in Squeezing mode  *)
(* alike, so a squeeze made next returns what it would have returned       *)
(* without the absorb.                                                     *)
(***************************************************************************)
C14_EmptyStep ==
    (Called /\ last'.op = "absorb" /\ last'.input = <<>>) =>
        /\ last'.res = "Ok"
        /\ last'.log = <<>>
        /\ state' = state
        /\ mode' = mode
        /\ \A n \in 0..(rate + 1) :
              \A before \in {squeeze_field_elements(Self(0), n)} :
              \A after \in {squeeze_field_elements(
                                Sponge(rate', capacity', state', mode', 0), n)} :
                  after.out = before.out /\ after.mode = before.mode

\* C14: every step that absorbs an empty canonical form is such a step
C14_EmptyAbsorbNoOp == [][C14_EmptyStep]_vars

\* the empty vector absorbed in Squeezing{1} after one element was squeezed
C14_Witness ==
    /\ rate = 2 /\ ncalls = 2
    /\ prev.op = "squeeze_field_elements" /\ prev.n = 1 /\ prev.res = "Ok"
    /\ last.op = "absorb" /\ last.input = <<>> /\ last.res = "Ok"
    /\ last.pre = Squeezing(1)
    /\ mode = Squeezing(1)
    /\ state = RefPermute(<<0, 0, 0>>)

(***************************************************************************)
(* C15: a squeeze called in Squeezing{idx} for more elements than the      *)
(* rate - idx left before rate first reads state[idx..rate]; unless        *)
(* exactly rate elements were just produced, a permutation runs before any *)
(* element of the remainder is read; reading resumes at position 0.  With  *)
(* idx = rate at entry, the call permutes and reads from position 0.       *)
(***************************************************************************)
IsSqueeze(c) == c.op \in {"squeeze_field_elements", "squeeze_bytes", "squeeze_bits"}

\* the first read of lg after its first k events
NextRead(lg, k) ==
    lg[CHOOSE i \in (k + 1)..Len(lg) :
          /\ lg[i].ev = "read"
          /\ \A j \in (k + 1)..(i - 1) : lg[j].ev # "read"]

C15_SqueezeOverflow ==
    LET idx == last.pre.idx
        k == rate - idx
        lg == last.log
    IN  (IsSqueeze(last) /\ last.res = "Ok" /\ last.pre.kind = "Squeezing"
           /\ CountEv(lg, "read") > k) =>
            IF idx = rate
            THEN lg[1] = PermuteEv /\ lg[2].ev = "read" /\ lg[2].pos = 0
            ELSE /\ \A i \in 1..k : lg[i].ev = "read" /\ lg[i].pos = idx + i - 1
                 /\ k # rate => lg[k + 1] = PermuteEv
                 /\ NextRead(lg, k).pos = 0

(***************************************************************************)
(* C16: absorb adds each element to one position of state[0..rate],        *)
(* consecutive elements to consecutive positions from the cursor (from 0   *)
(* after a permutation); no fold and no read is at a capacity position;    *)
(* the state after a call is the state before it with the folds added and  *)
(* the permutations applied, so a call without a permutation leaves the    *)
(* capacity positions as they were.                                        *)
(***************************************************************************)
IsFold(e) == e.ev = "fold"

FoldVals(lg) ==
    LET folds == SelectSeq(lg, IsFold)
    IN  Vector([i \in 1..Len(folds) |-> folds[i].val], Len(folds))

C16_FrameStep ==
    Called =>
        LET lg == last'.log
            w == rate + capacity
        IN  /\ \A i \in 1..Len(lg) : IsAccess(lg[i]) => lg[i].pos \in 0..(rate - 1)
            /\ (lg # <<>> /\ lg[1].ev = "fold") =>
                  (mode.kind = "Absorbing" /\ lg[1].pos = mode.idx)
            /\ \A i \in 2..Len(lg) :
                  lg[i].ev = "fold" =>
                      lg[i].pos = IF lg[i - 1].ev = "fold" THEN lg[i - 1].pos + 1 ELSE 0
            /\ last'.res = "Ok" =>
                  /\ last'.op = "absorb" => FoldVals(lg) = last'.input
                  /\ state' = Replayed(state, lg, Len(lg))
            /\ CountEv(lg, "permute") = 0 =>
                  \A i \in (rate + 1)..w : state'[i] = state[i]

\* C16: every call is such a step
C16_FoldsIntoRatePrefix == [][C16_FrameStep]_vars

\* rate = 2: after a squeeze of one element, absorb <<1, 2, 3>>: the
\* elements 1 and 2 are added to the permuted state, 3 after the next
\* permutation
C16_Witness ==
    /\ rate = 2 /\ capacity = 1 /\ ncalls = 2
    /\ last.op = "absorb" /\ last.res = "Ok" /\ last.pre = Squeezing(1)
    /\ last.log = <<PermuteEv, FoldEv(0, 1), FoldEv(1, 2), PermuteEv, FoldEv(0, 3)>>
    /\ mode = Absorbing(1)
    /\ LET p == RefPermute(RefPermute(<<0, 0, 0>>))
           q == RefPermute(<<Fadd(p[1], 1), Fadd(p[2], 2), p[3]>>)
       IN  state = <<Fadd(q[1], 3), q[2], q[3]>>

(***************************************************************************)
(* C17: each permutation starts key_state and key_injection afresh from    *)
(* initial_constant, adds key_state to the state, and runs 2 * rounds      *)
(* sub-rounds over the full width; sub-round r raises key_state and state  *)
(* to inv_alpha (r even) or alpha (r odd), then sets key_injection to      *)
(* constants_matrix * key_injection + constants_constant, key_state to     *)
(* mds * key_state + the new key_injection, and state to mds * state +     *)
(* the new key_state.  RefPermute is this round function; every call must  *)
(* leave the state its folds and that many applications of RefPermute      *)
(* give, with one pow_by_constant per element and sub-round.               *)
(***************************************************************************)
RefAfterEvent(p, e) ==
    CASE e.ev = "fold" -> [p EXCEPT ![e.pos + 1] = (p[e.pos + 1] + e.val) % MODULUS]
      [] e.ev = "permute" -> RefPermute(p)
      [] OTHER -> p

RECURSIVE RefReplayed(_, _, _)
RefReplayed(st, lg, i) ==
    IF i = 0 THEN st
    ELSE CHOOSE q \in {RefAfterEvent(p, lg[i]) : p \in {RefReplayed(st, lg, i - 1)}} : TRUE

C17_RoundStep ==
    (Called /\ last'.res = "Ok") =>
        /\ state' = RefReplayed(state, last'.log, Len(last'.log))
        /\ permute(Self(0)).pows = 2 * rounds * (rate + capacity)
        /\ Len(state') = rate + capacity

\* C17: every call that succeeds is such a step
C17_RoundStructure == [][C17_RoundStep]_vars

\* rate = 2, capacity = 1: squeeze three elements from the new sponge: two
\* permutations, each with its key schedule started afresh
C17_Witness ==
    /\ rate = 2 /\ capacity = 1 /\ ncalls = 1
    /\ last.op = "squeeze_field_elements" /\ last.n = 3 /\ last.res = "Ok"
    /\ CountEv(last.log, "permute") = 2
    /\ state = RefPermute(RefPermute(<<0, 0, 0>>))
    /\ state # RefPermute(<<0, 0, 0>>)

(***************************************************************************)
(* C18: every absorb and every squeeze completes.  An activation of        *)
(* absorb_internal or squeeze_internal that recurses consumes              *)
(* rate - rate_start_index >= 1 elements, which is rate for every          *)
(* activation after the first, so the length left strictly decreases, and  *)
(* every call in progress comes to its end.                                *)
(***************************************************************************)
C18_Recursing == run.pc # "idle" /\ run'.pc = run.pc

C18_Decreases ==
    C18_Recursing =>
        /\ run'.len < run.len
        /\ run.len - run'.len = rate - run.start
        /\ ~run.first => run.len - run'.len = rate
        /\ run'.start = 0

C18_Termination ==
    /\ [][C18_Decreases]_vars
    /\ (run.pc # "idle") ~> (run.pc = "idle")

\* rate = 2: an absorb of five elements from cursor 1 after its second
\* activation: one element left
C18_Witness ==
    /\ rate = 2
    /\ run.pc = "absorb_internal" /\ ~run.first
    /\ run.start = 0 /\ run.len = 1 /\ run.elements = <<5>>
    /\ ncalls = 1

(***************************************************************************)
(* C19: no rate position is returned as output twice without a             *)
(* permutation between the two reads: of any two reads of the same         *)
(* position since construction, the later one comes after a permutation    *)
(* that ran after the earlier one.                                         *)
(***************************************************************************)
C19_SqueezeFreshness ==
    \A i, j \in 1..Len(trace) :
        (i < j /\ trace[i].ev = "read" /\ trace[j].ev = "read"
           /\ trace[i].pos = trace[j].pos) => PermutedBetween(i, j)

(***************************************************************************)
(* C20: absorbing A and then B, with no squeeze in between, leaves the     *)
(* state vector, mode and cursor, and runs as many permutations, as one    *)
(* absorb of A \o B: every absorb of a sequence, from every reachable      *)
(* state, ends as the two absorbs of its parts do, wherever it is split.   *)
(***************************************************************************)
FpVecTy == <<"Vec", "FpVar">>

C20_SplitStep ==
    (Called /\ last'.op = "absorb" /\ last'.res = "Ok") =>
        \A k \in 0..Len(last'.input) :
            LET A == SubSeq(last'.input, 1, k)
                B == SubSeq(last'.input, k + 1, Len(last'.input))
            IN  \A one \in {absorb(Self(0), FpVecTy, A)} :
                \A two \in {absorb(one, FpVecTy, B)} :
                    /\ two.res = "Ok"
                    /\ two.state = state'
                    /\ two.mode = mode'
                    /\ CountEv(two.log, "permute") = CountEv(last'.log, "permute")

\* C20: every successful absorb is such a step
C20_AbsorbSplitInvariance == [][C20_SplitStep]_vars

\* rate = 2: <<1, 2, 3, 4, 5>> absorbed from cursor 1: two permutations
\* and cursor 2, as for every split of the five elements into two absorbs
C20_Witness ==
    /\ rate = 2 /\ ncalls = 2
    /\ prev.op = "absorb" /\ prev.input = <<1>> /\ prev.res = "Ok"
    /\ last.op = "absorb" /\ last.input = <<1, 2, 3, 4, 5>> /\ last.res = "Ok"
    /\ last.pre = Absorbing(1)
    /\ CountEv(last.log, "permute") = 2
    /\ mode = Absorbing(2)

====
